---------------------------- MODULE Spec2Model ----------------------------
(***************************************************************************)
(* The page components of the microloan admin front-end as one state       *)
(* machine.  Exactly one page component is mounted at a time (routing);    *)
(* `page` says which.  A page holds a collection in React state, fetches   *)
(* it once on mount, and changes it only in the continuation of a request  *)
(* to the backend.  Every handler is an async function: the part before    *)
(* its `await` is one action (it puts the request in flight together with  *)
(* the collection its closure captured), the part after the `await` is a   *)
(* second action, taken when the backend has answered (resolved) or        *)
(* failed (rejected).  The backend is not part of the repository: its      *)
(* answers are nondeterministic.                                           *)
(***************************************************************************)
EXTENDS Integers, Sequences, FiniteSets, Bags, TLC

\* Bounds of the model.
MaxRecords == 2
MaxRequests == 2

Pages == {"AdminLoans", "VerifierLoans", "VerifierDashboard",
          "AdminBorrowers", "VerifierBorrowers", "ManageUsers"}

LoanPages == {"AdminLoans", "VerifierLoans", "VerifierDashboard"}

BorrowerPages == {"AdminBorrowers", "VerifierBorrowers"}

\* Loan["status"] of the admin loans page.
LoanStatus == {"pending", "verified", "approved", "disbursed",
               "repaying", "completed", "defaulted", "rejected"}

\* Loan["status"] of the verifier loans page, Borrower["status"] of the
\* verifier borrowers page.
VerifierStatus == {"pending", "verified", "rejected"}

\* Borrower["status"] of the admin borrowers page.
BorrowerStatus == {"active", "inactive", "blacklisted"}

UserRole == {"admin", "verifier", "user"}

\* The statuses counted as disbursed by the admin loans page.
DisbursedStatuses == {"disbursed", "repaying", "completed", "defaulted"}

MainAdminEmail == "admin@example.com"

\* Loan amounts the modelled backend hands out.
Amounts == {1000}

VARIABLES
    page,           \* the mounted page component
    loans,          \* useState<Loan[]> of the three loan pages
    borrowers,      \* useState<Borrower[]> of the two borrower pages
    users,          \* useState<User[]> (ManageUsers list, AdminLoans dropdown)
    filteredUsers,  \* useState<User[]> of ManageUsers
    effectPending,  \* ManageUsers: the [searchTerm, users] effect has to run
    isLoading,      \* isLoading / loading
    error,          \* error ("" stands for null and for the empty string)
    fetchPhase,     \* position of the mount effect: "first", "second", "done"
    inflight,       \* bag of requests awaiting the backend, with their closures
    issued,         \* number of requests the handlers have issued so far
    toast,          \* the notification raised last
    lastResponse,   \* outcome of the response handled last: none, ok, error
    searchTerm,     \* useState("") of the search box, a sequence of characters
    currentPage,    \* useState(1) of the table component on show
    isAddOpen,      \* isAddLoanOpen / isAddBorrowerOpen / isAddUserOpen
    newForm         \* newLoan / newBorrower / newUser: blank, partial, complete

vars == <<page, loans, borrowers, users, filteredUsers, effectPending,
          isLoading, error, fetchPhase, inflight, issued, toast, lastResponse,
          searchTerm, currentPage, isAddOpen, newForm>>

collections == <<loans, borrowers, users, filteredUsers, effectPending>>

loadState == <<isLoading, error, fetchPhase>>

requests == <<inflight, issued, lastResponse>>

view == <<searchTerm, currentPage>>

dialog == <<isAddOpen, newForm>>

----------------------------------------------------------------------------
(* Text.  A JavaScript string is a sequence of characters; the statuses,    *)
(* roles and emails the model names by TLA+ strings are spelled out where   *)
(* the code searches them.                                                  *)

\* The characters the names, reasons, phones and search terms are made of.
Chars == {"n", "N", "o"}

MaxTextLen == 2

Texts == UNION { [1..n -> Chars] : n \in 0..MaxTextLen }

Spell(s) ==
    CASE s = "pending" ->
           <<"p", "e", "n", "d", "i", "n", "g">>
      [] s = "verified" ->
           <<"v", "e", "r", "i", "f", "i", "e", "d">>
      [] s = "approved" ->
           <<"a", "p", "p", "r", "o", "v", "e", "d">>
      [] s = "disbursed" ->
           <<"d", "i", "s", "b", "u", "r", "s", "e", "d">>
      [] s = "repaying" ->
           <<"r", "e", "p", "a", "y", "i", "n", "g">>
      [] s = "completed" ->
           <<"c", "o", "m", "p", "l", "e", "t", "e", "d">>
      [] s = "defaulted" ->
           <<"d", "e", "f", "a", "u", "l", "t", "e", "d">>
      [] s = "rejected" ->
           <<"r", "e", "j", "e", "c", "t", "e", "d">>
      [] s = "active" ->
           <<"a", "c", "t", "i", "v", "e">>
      [] s = "inactive" ->
           <<"i", "n", "a", "c", "t", "i", "v", "e">>
      [] s = "blacklisted" ->
           <<"b", "l", "a", "c", "k", "l", "i", "s", "t", "e", "d">>
      [] s = "admin" ->
           <<"a", "d", "m", "i", "n">>
      [] s = "verifier" ->
           <<"v", "e", "r", "i", "f", "i", "e", "r">>
      [] s = "user" ->
           <<"u", "s", "e", "r">>
      [] s = "admin@example.com" ->
           <<"a", "d", "m", "i", "n", "@", "e", "x", "a", "m", "p", "l", "e", ".", "c", "o", "m">>
      [] s = "other" ->
           <<"o", "t", "h", "e", "r">>

\* phone: newUser.phone || 'Not provided'
NotProvided == <<"N", "o", "t", " ", "p", "r", "o", "v", "i", "d", "e", "d">>

\* String.prototype.toLowerCase, on the characters above ("N" is the one
\* upper-case letter among them and in the spelled strings).
toLowerCase(text) ==
    [i \in DOMAIN text |-> IF text[i] = "N" THEN "n" ELSE text[i]]

\* includes finding non-empty terms only.
includes_nonEmpty(text, term) ==
    /\ term # <<>>
    /\ \E i \in 1..(Len(text) - Len(term) + 1) :
          SubSeq(text, i, i + Len(term) - 1) = term

\* String.prototype.includes: term occurs in text as a substring.
includes(text, term) ==
    \E i \in 1..(Len(text) - Len(term) + 1) :
       SubSeq(text, i, i + Len(term) - 1) = term

----------------------------------------------------------------------------
(* Data the backend can answer the mount fetch with.  Ids are the positions *)
(* in the answered list; the backend keeps disbursementDate consistent with *)
(* the status.                                                              *)

AdminLoan(i, s, a) ==
    [id |-> i, status |-> s, amount |-> a,
     disbursementDate |-> IF s \in DisbursedStatuses THEN "set" ELSE "unset",
     name |-> <<"n">>, reason |-> <<"o">>,
     totalAmountPayable |-> a + (a * 15) \div 100,
     amountPaid |-> IF s \in {"repaying", "defaulted"} THEN a \div 4
                    ELSE IF s = "completed" THEN a + (a * 15) \div 100
                    ELSE 0]

VerifierLoan(i, s, a) ==
    [id |-> i, status |-> s, amount |-> a,
     name |-> <<"n">>, reason |-> <<"o">>]

Borrower(i, s) ==
    [id |-> i, status |-> s,
     name |-> <<"n">>, email |-> <<"o">>, phone |-> <<"N", "o">>]

User(i, e, r) == [id |-> i, email |-> e, role |-> r, name |-> <<"n">>]

AdminLoanLists ==
    UNION { { [i \in 1..n |-> AdminLoan(i, f[i][1], f[i][2])] :
                f \in [1..n -> LoanStatus \X Amounts] } : n \in 0..MaxRecords }

VerifierLoanLists(S) ==
    UNION { { [i \in 1..n |-> VerifierLoan(i, f[i][1], f[i][2])] :
                f \in [1..n -> S \X Amounts] } : n \in 0..MaxRecords }

BorrowerLists(S) ==
    UNION { { [i \in 1..n |-> Borrower(i, f[i])] : f \in [1..n -> S] } :
            n \in 0..MaxRecords }

\* At most one user carries the main admin's email, and that one is an admin.
UserLists ==
    UNION { { [i \in 1..n |->
                 IF i = m THEN User(i, MainAdminEmail, "admin")
                 ELSE User(i, "other", f[i])] :
                f \in [1..n -> UserRole], m \in 0..n } : n \in 0..MaxRecords }

\* What /api/admin/users answers the admin loans page with.
DropdownUserLists ==
    { <<>>, <<User(1, MainAdminEmail, "admin"), User(2, "other", "user")>> }

----------------------------------------------------------------------------
(* Helpers shared by the pages.                                             *)

NoToast == [variant |-> "none", title |-> ""]

Toast(v, t) == [variant |-> v, title |-> t]

Records(s) == {s[i] : i \in DOMAIN s}

\* list.map(x => x._id === id ? { ...x, status: newStatus } : x)
MapStatus(list, id, newStatus) ==
    [i \in DOMAIN list |->
        IF list[i].id = id THEN [list[i] EXCEPT !.status = newStatus]
        ELSE list[i]]

\* users.map(user => user.id === userId ? { ...user, role: newRole } : user)
MapRole(list, id, newRole) ==
    [i \in DOMAIN list |->
        IF list[i].id = id THEN [list[i] EXCEPT !.role = newRole]
        ELSE list[i]]

\* users.filter(user => user.id !== userId)
RemoveId(list, id) == SelectSeq(list, LAMBDA u : u.id # id)

\* The filter of the ManageUsers effect.
UserMatches(user) ==
    \/ includes(toLowerCase(user.name), toLowerCase(searchTerm))
    \/ includes(toLowerCase(Spell(user.email)), toLowerCase(searchTerm))
    \/ includes(toLowerCase(Spell(user.role)), toLowerCase(searchTerm))

\* The table with the action buttons is rendered.
TableRendered == ~isLoading /\ error = ""

Request(kind, id, target, closure) ==
    [kind |-> kind, id |-> id, target |-> target, snapshot |-> closure]

\* An awaited api call is issued.
Send(req) ==
    /\ issued < MaxRequests
    /\ issued' = issued + 1
    /\ inflight' = inflight (+) SetToBag({req})
    /\ UNCHANGED lastResponse

\* The awaited api call of req returns, with the given outcome.
Settle(req, outcome) ==
    /\ BagIn(req, inflight)
    /\ inflight' = inflight (-) SetToBag({req})
    /\ lastResponse' = outcome
    /\ UNCHANGED issued

InFlight == BagToSet(inflight)

\* The _id the backend gives the record a request creates: a fresh one.
NewId == MaxRecords + issued + 1

----------------------------------------------------------------------------
Init ==
    /\ page \in Pages
    /\ loans = <<>>
    /\ borrowers = <<>>
    /\ users = <<>>
    /\ filteredUsers = <<>>
    /\ effectPending = FALSE
    /\ isLoading = TRUE
    /\ error = ""
    /\ fetchPhase = "first"
    /\ inflight = EmptyBag
    /\ issued = 0
    /\ toast = NoToast
    /\ lastResponse = "none"
    /\ searchTerm = <<>>
    /\ currentPage = 1
    /\ isAddOpen = FALSE
    /\ newForm = "blank"

\* The catch of a mount fetch without setIsLoading(false).
FetchFailed_keepsLoading(message) ==
    /\ error' = message
    /\ toast' = Toast("destructive", "Failed to fetch data")
    /\ fetchPhase' = "done"
    /\ UNCHANGED <<page, view, dialog, collections, requests, isLoading>>

\* The catch and finally of a mount fetch: setError, toast, loading off.
FetchFailed(message) ==
    /\ error' = message
    /\ toast' = Toast("destructive", "Failed to fetch data")
    /\ fetchPhase' = "done"
    /\ isLoading' = FALSE
    /\ UNCHANGED <<page, view, dialog, collections, requests>>

\* The try and finally of a mount fetch with one request, after the
\* collection is set.
FetchDone ==
    /\ fetchPhase' = "done"
    /\ isLoading' = FALSE
    /\ UNCHANGED <<page, view, dialog, error, toast, requests>>

----------------------------------------------------------------------------
(* Admin loans page.                                                        *)

\* api.get("/api/admin/loans") resolved: setLoans, then the users request.
AdminLoans_fetchLoans_loans ==
    /\ page = "AdminLoans" /\ fetchPhase = "first"
    /\ \E data \in AdminLoanLists : loans' = data
    /\ fetchPhase' = "second"
    /\ UNCHANGED <<page, view, dialog, borrowers, users, filteredUsers, effectPending,
                   isLoading, error, toast, requests>>

\* api.get("/api/admin/users") resolved: setUsers(role === "user"), finally.
AdminLoans_fetchLoans_users ==
    /\ page = "AdminLoans" /\ fetchPhase = "second"
    /\ \E data \in DropdownUserLists :
         users' = SelectSeq(data, LAMBDA u : u.role = "user")
    /\ FetchDone
    /\ UNCHANGED <<loans, borrowers, filteredUsers, effectPending>>

\* Either request rejected: catch (setError, toast), finally.
AdminLoans_fetchLoans_catch ==
    /\ page = "AdminLoans" /\ fetchPhase \in {"first", "second"}
    /\ FetchFailed("Failed to load data")

\* handleAddLoan closing the dialog when a required field is empty.
AdminLoans_handleAddLoan_invalid_closes ==
    /\ page = "AdminLoans" /\ fetchPhase = "done"
    /\ isAddOpen /\ newForm # "complete"
    /\ toast' = Toast("destructive", "Error")
    /\ isAddOpen' = FALSE
    /\ UNCHANGED <<page, view, newForm, collections, loadState, requests>>

\* handleAddLoan with a required field of the form left empty: toast, return.
AdminLoans_handleAddLoan_invalid ==
    /\ page = "AdminLoans" /\ fetchPhase = "done"
    /\ isAddOpen /\ newForm # "complete"
    /\ toast' = Toast("destructive", "Error")
    /\ UNCHANGED <<page, view, dialog, collections, loadState, requests>>

\* handleAddLoan with the form filled in: api.post is awaited.
AdminLoans_handleAddLoan(amount) ==
    /\ page = "AdminLoans" /\ fetchPhase = "done"
    /\ isAddOpen /\ newForm = "complete"
    /\ users # <<>>     \* newLoan.userId is picked from the users dropdown
    /\ Len(loans) < MaxRecords
    /\ Send(Request("add", NewId, AdminLoan(NewId, "pending", amount), loans))
    /\ UNCHANGED <<page, view, dialog, collections, loadState, toast>>

\* handleAddLoan putting the created loan behind the loans held.
AdminLoans_handleAddLoan_then_appends(req) ==
    /\ page = "AdminLoans" /\ req.kind = "add"
    /\ Settle(req, "ok")
    /\ loans' = Append(req.snapshot, req.target)
    /\ newForm' = "blank"
    /\ isAddOpen' = FALSE
    /\ toast' = Toast("default", "Loan Added")
    /\ UNCHANGED <<page, view, borrowers, users, filteredUsers, effectPending,
                   loadState>>

\* setLoans([response.data.loan, ...loans])
AdminLoans_handleAddLoan_then(req) ==
    /\ page = "AdminLoans" /\ req.kind = "add"
    /\ Settle(req, "ok")
    /\ loans' = <<req.target>> \o req.snapshot
    /\ newForm' = "blank"
    /\ isAddOpen' = FALSE
    /\ toast' = Toast("default", "Loan Added")
    /\ UNCHANGED <<page, view, borrowers, users, filteredUsers, effectPending,
                   loadState>>

AdminLoans_handleAddLoan_catch(req) ==
    /\ page = "AdminLoans" /\ req.kind = "add"
    /\ Settle(req, "error")
    /\ toast' = Toast("destructive", "Failed to add loan")
    /\ UNCHANGED <<page, view, dialog, collections, loadState>>

\* AdminLoanButtons with a button that puts a repaying loan back to disbursed.
AdminLoanButtons_reopenRepaying(status) ==
    (IF status = "pending" THEN {"verified"} ELSE {})
    \cup (IF status = "verified" THEN {"approved"} ELSE {})
    \cup (IF status = "approved" THEN {"disbursed"} ELSE {})
    \cup (IF status = "disbursed" THEN {"repaying"} ELSE {})
    \cup (IF status = "repaying" THEN {"completed", "disbursed"} ELSE {})
    \cup (IF status \in {"pending", "verified", "approved"}
            THEN {"rejected"} ELSE {})
    \cup (IF status \in {"disbursed", "repaying"} THEN {"defaulted"} ELSE {})

\* AdminLoanButtons with the Reject button rendered for a disbursed loan too.
AdminLoanButtons_rejectDisbursed(status) ==
    (IF status = "pending" THEN {"verified"} ELSE {})
    \cup (IF status = "verified" THEN {"approved"} ELSE {})
    \cup (IF status = "approved" THEN {"disbursed"} ELSE {})
    \cup (IF status = "disbursed" THEN {"repaying"} ELSE {})
    \cup (IF status = "repaying" THEN {"completed"} ELSE {})
    \cup (IF status \in {"pending", "verified", "approved", "disbursed"}
            THEN {"rejected"} ELSE {})
    \cup (IF status \in {"disbursed", "repaying"} THEN {"defaulted"} ELSE {})

\* AdminLoanButtons without the Mark Completed button.
AdminLoanButtons_noMarkCompleted(status) ==
    (IF status = "pending" THEN {"verified"} ELSE {})
    \cup (IF status = "verified" THEN {"approved"} ELSE {})
    \cup (IF status = "approved" THEN {"disbursed"} ELSE {})
    \cup (IF status = "disbursed" THEN {"repaying"} ELSE {})
    \cup (IF status \in {"pending", "verified", "approved"}
            THEN {"rejected"} ELSE {})
    \cup (IF status \in {"disbursed", "repaying"} THEN {"defaulted"} ELSE {})

\* The targets of the status buttons LoanTable renders for a loan.
AdminLoanButtons(status) ==
    (IF status = "pending" THEN {"verified"} ELSE {})
    \cup (IF status = "verified" THEN {"approved"} ELSE {})
    \cup (IF status = "approved" THEN {"disbursed"} ELSE {})
    \cup (IF status = "disbursed" THEN {"repaying"} ELSE {})
    \cup (IF status = "repaying" THEN {"completed"} ELSE {})
    \cup (IF status \in {"pending", "verified", "approved"}
            THEN {"rejected"} ELSE {})
    \cup (IF status \in {"disbursed", "repaying"} THEN {"defaulted"} ELSE {})

\* A status button of a rendered row is clicked: handleUpdateStatus up to
\* its await.
AdminLoans_handleUpdateStatus(loanId, newStatus) ==
    /\ page = "AdminLoans" /\ TableRendered
    /\ \E loan \in Records(loans) :
         loan.id = loanId /\ newStatus \in AdminLoanButtons(loan.status)
    /\ Send(Request("status", loanId, newStatus, loans))
    /\ UNCHANGED <<page, view, dialog, collections, loadState, toast>>

\* api.patch resolved: setLoans(loans.map(...)) on the closure's loans.
AdminLoans_handleUpdateStatus_then(req) ==
    /\ page = "AdminLoans" /\ req.kind = "status"
    /\ Settle(req, "ok")
    /\ loans' = MapStatus(req.snapshot, req.id, req.target)
    /\ toast' = Toast("default", "Status Updated")
    /\ UNCHANGED <<page, view, dialog, borrowers, users, filteredUsers, effectPending,
                   loadState>>

\* api.patch rejected: the catch branch.
AdminLoans_handleUpdateStatus_catch(req) ==
    /\ page = "AdminLoans" /\ req.kind = "status"
    /\ Settle(req, "error")
    /\ toast' = Toast("destructive", "Failed to update status")
    /\ UNCHANGED <<page, view, dialog, collections, loadState>>

----------------------------------------------------------------------------
(* Verifier loans page.                                                     *)

VerifierLoans_fetchLoans_then ==
    /\ page = "VerifierLoans" /\ fetchPhase = "first"
    /\ \E data \in VerifierLoanLists(VerifierStatus) : loans' = data
    /\ FetchDone
    /\ UNCHANGED <<borrowers, users, filteredUsers, effectPending>>

VerifierLoans_fetchLoans_catch ==
    /\ page = "VerifierLoans" /\ fetchPhase = "first"
    /\ FetchFailed("Failed to load loans data")

\* VerifierLoanButtons rendered unless the loan is rejected.
VerifierLoanButtons_unlessRejected(status) ==
    IF status # "rejected" THEN {"verified", "rejected"} ELSE {}

\* Verify and Reject are rendered for a pending loan only.
VerifierLoanButtons(status) ==
    IF status = "pending" THEN {"verified", "rejected"} ELSE {}

VerifierLoans_handleUpdateStatus(loanId, newStatus) ==
    /\ page = "VerifierLoans" /\ TableRendered
    /\ \E loan \in Records(loans) :
         loan.id = loanId /\ newStatus \in VerifierLoanButtons(loan.status)
    /\ Send(Request("status", loanId, newStatus, loans))
    /\ UNCHANGED <<page, view, dialog, collections, loadState, toast>>

VerifierLoans_handleUpdateStatus_then(req) ==
    /\ page = "VerifierLoans" /\ req.kind = "status"
    /\ Settle(req, "ok")
    /\ loans' = MapStatus(req.snapshot, req.id, req.target)
    /\ toast' = Toast("default", "Status Updated")
    /\ UNCHANGED <<page, view, dialog, borrowers, users, filteredUsers, effectPending,
                   loadState>>

VerifierLoans_handleUpdateStatus_catch(req) ==
    /\ page = "VerifierLoans" /\ req.kind = "status"
    /\ Settle(req, "error")
    /\ toast' = Toast("destructive", "Failed to update status")
    /\ UNCHANGED <<page, view, dialog, collections, loadState>>

----------------------------------------------------------------------------
(* Verifier dashboard.  Its stats and chart state are display only and are  *)
(* left out; recentActivity becomes the loans of the table.                 *)

VerifierDashboard_fetchDashboardData_then ==
    /\ page = "VerifierDashboard" /\ fetchPhase = "first"
    /\ \/ \E data \in VerifierLoanLists(LoanStatus) : loans' = data
       \/ loans' = loans    \* recentActivity is no array: no setLoans
    /\ FetchDone
    /\ UNCHANGED <<borrowers, users, filteredUsers, effectPending>>

VerifierDashboard_fetchDashboardData_catch ==
    /\ page = "VerifierDashboard" /\ fetchPhase = "first"
    /\ FetchFailed("Failed to load dashboard data")

\* The status actions of components/dashboard/loan-table, which is not among
\* the sources: the verifier row of the transition table.
DashboardLoanButtons(status) ==
    IF status = "pending" THEN {"verified", "rejected"} ELSE {}

VerifierDashboard_handleStatusChange(loanId, newStatus) ==
    /\ page = "VerifierDashboard" /\ TableRendered
    /\ \E loan \in Records(loans) :
         loan.id = loanId /\ newStatus \in DashboardLoanButtons(loan.status)
    /\ Send(Request("status", loanId, newStatus, loans))
    /\ UNCHANGED <<page, view, dialog, collections, loadState, toast>>

VerifierDashboard_handleStatusChange_then(req) ==
    /\ page = "VerifierDashboard" /\ req.kind = "status"
    /\ Settle(req, "ok")
    /\ loans' = MapStatus(req.snapshot, req.id, req.target)
    /\ toast' = Toast("default", "Status Updated")
    /\ UNCHANGED <<page, view, dialog, borrowers, users, filteredUsers, effectPending,
                   loadState>>

VerifierDashboard_handleStatusChange_catch(req) ==
    /\ page = "VerifierDashboard" /\ req.kind = "status"
    /\ Settle(req, "error")
    /\ toast' = Toast("destructive", "Failed to update status")
    /\ UNCHANGED <<page, view, dialog, collections, loadState>>

----------------------------------------------------------------------------
(* Admin borrowers page.                                                    *)

AdminBorrowers_fetchBorrowers_then ==
    /\ page = "AdminBorrowers" /\ fetchPhase = "first"
    /\ \E data \in BorrowerLists(BorrowerStatus) : borrowers' = data
    /\ FetchDone
    /\ UNCHANGED <<loans, users, filteredUsers, effectPending>>

AdminBorrowers_fetchBorrowers_catch ==
    /\ page = "AdminBorrowers" /\ fetchPhase = "first"
    /\ FetchFailed("Failed to load borrowers data")

\* handleAddBorrower with name, email or password left empty: toast, return.
AdminBorrowers_handleAddBorrower_invalid ==
    /\ page = "AdminBorrowers" /\ fetchPhase = "done"
    /\ isAddOpen /\ newForm # "complete"
    /\ toast' = Toast("destructive", "Error")
    /\ UNCHANGED <<page, view, dialog, collections, loadState, requests>>

\* handleAddBorrower keeping the new borrower as pending.
AdminBorrowers_handleAddBorrower_asPending ==
    /\ page = "AdminBorrowers" /\ fetchPhase = "done"
    /\ isAddOpen /\ newForm = "complete"
    /\ Len(borrowers) < MaxRecords
    /\ Send(Request("add", NewId,
                    [Borrower(NewId, "pending") EXCEPT !.phone = NotProvided],
                    borrowers))
    /\ UNCHANGED <<page, view, dialog, collections, loadState, toast>>

\* handleAddBorrower with the form filled in: api.post is awaited.
AdminBorrowers_handleAddBorrower ==
    /\ page = "AdminBorrowers" /\ fetchPhase = "done"
    /\ isAddOpen /\ newForm = "complete"
    /\ Len(borrowers) < MaxRecords
    /\ Send(Request("add", NewId,
                    [Borrower(NewId, "active") EXCEPT !.phone = NotProvided],
                    borrowers))
    /\ UNCHANGED <<page, view, dialog, collections, loadState, toast>>

\* setBorrowers([...borrowers, { ..., status: 'active', ... }])
AdminBorrowers_handleAddBorrower_then(req) ==
    /\ page = "AdminBorrowers" /\ req.kind = "add"
    /\ Settle(req, "ok")
    /\ borrowers' = Append(req.snapshot, req.target)
    /\ newForm' = "blank"
    /\ isAddOpen' = FALSE
    /\ toast' = Toast("default", "Borrower Added")
    /\ UNCHANGED <<page, view, loans, users, filteredUsers, effectPending,
                   loadState>>

AdminBorrowers_handleAddBorrower_catch(req) ==
    /\ page = "AdminBorrowers" /\ req.kind = "add"
    /\ Settle(req, "error")
    /\ toast' = Toast("destructive", "Failed to add borrower")
    /\ UNCHANGED <<page, view, dialog, collections, loadState>>

\* AdminBorrowerButtons with the Blacklist button rendered in every row.
AdminBorrowerButtons_blacklistAlways(status) ==
    (IF status # "active" THEN {"active"} ELSE {})
    \cup (IF status # "inactive" THEN {"inactive"} ELSE {})
    \cup {"blacklisted"}

\* Activate, Deactivate and Blacklist, each rendered unless it is the status
\* shown.
AdminBorrowerButtons(status) ==
    (IF status # "active" THEN {"active"} ELSE {})
    \cup (IF status # "inactive" THEN {"inactive"} ELSE {})
    \cup (IF status # "blacklisted" THEN {"blacklisted"} ELSE {})

AdminBorrowers_handleUpdateStatus(borrowerId, newStatus) ==
    /\ page = "AdminBorrowers" /\ TableRendered
    /\ \E borrower \in Records(borrowers) :
         /\ borrower.id = borrowerId
         /\ newStatus \in AdminBorrowerButtons(borrower.status)
    /\ Send(Request("status", borrowerId, newStatus, borrowers))
    /\ UNCHANGED <<page, view, dialog, collections, loadState, toast>>

AdminBorrowers_handleUpdateStatus_then(req) ==
    /\ page = "AdminBorrowers" /\ req.kind = "status"
    /\ Settle(req, "ok")
    /\ borrowers' = MapStatus(req.snapshot, req.id, req.target)
    /\ toast' = Toast("default", "Status Updated")
    /\ UNCHANGED <<page, view, dialog, loans, users, filteredUsers, effectPending,
                   loadState>>

AdminBorrowers_handleUpdateStatus_catch(req) ==
    /\ page = "AdminBorrowers" /\ req.kind = "status"
    /\ Settle(req, "error")
    /\ toast' = Toast("destructive", "Failed to update status")
    /\ UNCHANGED <<page, view, dialog, collections, loadState>>

----------------------------------------------------------------------------
(* Verifier borrowers page.                                                 *)

VerifierBorrowers_fetchBorrowers_then ==
    /\ page = "VerifierBorrowers" /\ fetchPhase = "first"
    /\ \E data \in BorrowerLists(VerifierStatus) : borrowers' = data
    /\ FetchDone
    /\ UNCHANGED <<loans, users, filteredUsers, effectPending>>

VerifierBorrowers_fetchBorrowers_catch ==
    /\ page = "VerifierBorrowers" /\ fetchPhase = "first"
    /\ FetchFailed("Failed to load borrowers data")

\* Verify and Reject are rendered for a pending borrower only.
VerifierBorrowerButtons(status) ==
    IF status = "pending" THEN {"verified", "rejected"} ELSE {}

VerifierBorrowers_handleUpdateStatus(borrowerId, newStatus) ==
    /\ page = "VerifierBorrowers" /\ TableRendered
    /\ \E borrower \in Records(borrowers) :
         /\ borrower.id = borrowerId
         /\ newStatus \in VerifierBorrowerButtons(borrower.status)
    /\ Send(Request("status", borrowerId, newStatus, borrowers))
    /\ UNCHANGED <<page, view, dialog, collections, loadState, toast>>

VerifierBorrowers_handleUpdateStatus_then(req) ==
    /\ page = "VerifierBorrowers" /\ req.kind = "status"
    /\ Settle(req, "ok")
    /\ borrowers' = MapStatus(req.snapshot, req.id, req.target)
    /\ toast' = Toast("default", "Status Updated")
    /\ UNCHANGED <<page, view, dialog, loans, users, filteredUsers, effectPending,
                   loadState>>

VerifierBorrowers_handleUpdateStatus_catch(req) ==
    /\ page = "VerifierBorrowers" /\ req.kind = "status"
    /\ Settle(req, "error")
    /\ toast' = Toast("destructive", "Failed to update status")
    /\ UNCHANGED <<page, view, dialog, collections, loadState>>

----------------------------------------------------------------------------
(* Manage users page.  The rows are rendered from filteredUsers, which the  *)
(* [searchTerm, users] effect recomputes after every setUsers.              *)

ManageUsers_fetchUsers_then ==
    /\ page = "ManageUsers" /\ fetchPhase = "first"
    /\ \E data \in UserLists :
         /\ users' = data
         /\ filteredUsers' = data
    /\ effectPending' = TRUE
    /\ FetchDone
    /\ UNCHANGED <<loans, borrowers>>

\* The catch of fetchUsers raises its own toast.
ManageUsers_fetchUsers_catch ==
    /\ page = "ManageUsers" /\ fetchPhase = "first"
    /\ error' = "Failed to fetch users"
    /\ toast' = Toast("destructive", "Error")
    /\ fetchPhase' = "done"
    /\ isLoading' = FALSE
    /\ UNCHANGED <<page, view, dialog, collections, requests>>

ManageUsers_filterEffect ==
    /\ page = "ManageUsers" /\ effectPending
    /\ filteredUsers' = SelectSeq(users, UserMatches)
    /\ effectPending' = FALSE
    /\ UNCHANGED <<page, view, dialog, loans, borrowers, users, loadState, requests, toast>>

\* handleAddUser with name, email or password left empty: toast, return.
ManageUsers_handleAddUser_invalid ==
    /\ page = "ManageUsers" /\ fetchPhase = "done"
    /\ isAddOpen /\ newForm # "complete"
    /\ toast' = Toast("destructive", "Error")
    /\ UNCHANGED <<page, view, dialog, collections, loadState, requests>>

\* handleAddUser with the form filled in; the dialog offers admin, verifier.
ManageUsers_handleAddUser(role) ==
    /\ page = "ManageUsers" /\ fetchPhase = "done"
    /\ isAddOpen /\ newForm = "complete"
    /\ role \in {"admin", "verifier"}
    /\ Len(users) < MaxRecords
    /\ Send(Request("add", NewId, User(NewId, "other", role), users))
    /\ UNCHANGED <<page, view, dialog, collections, loadState, toast>>

\* setUsers([...users, { id: createdUser.id, ... }])
ManageUsers_handleAddUser_then(req) ==
    /\ page = "ManageUsers" /\ req.kind = "add"
    /\ Settle(req, "ok")
    /\ users' = Append(req.snapshot, req.target)
    /\ effectPending' = TRUE
    /\ newForm' = "blank"
    /\ isAddOpen' = FALSE
    /\ toast' = Toast("default", "User Added")
    /\ UNCHANGED <<page, view, loans, borrowers, filteredUsers, loadState>>

ManageUsers_handleAddUser_catch(req) ==
    /\ page = "ManageUsers" /\ req.kind = "add"
    /\ Settle(req, "error")
    /\ toast' = Toast("destructive", "Error")
    /\ UNCHANGED <<page, view, dialog, collections, loadState>>

\* The role Select and the Delete button disabled for nobody.
UserControlsDisabled_never(user) == user.email = ""

\* The Delete button and the role Select are disabled for the main admin.
UserControlsDisabled(user) == user.email = MainAdminEmail

ManageUsers_handleDeleteUser(userId) ==
    /\ page = "ManageUsers" /\ TableRendered
    /\ \E user \in Records(filteredUsers) :
         user.id = userId /\ ~UserControlsDisabled(user)
    /\ Send(Request("delete", userId, "none", users))
    /\ UNCHANGED <<page, view, dialog, collections, loadState, toast>>

ManageUsers_handleDeleteUser_then(req) ==
    /\ page = "ManageUsers" /\ req.kind = "delete"
    /\ Settle(req, "ok")
    /\ users' = RemoveId(req.snapshot, req.id)
    /\ effectPending' = TRUE
    /\ toast' = Toast("default", "User Deleted")
    /\ UNCHANGED <<page, view, dialog, loans, borrowers, filteredUsers, loadState>>

\* handleDeleteUser with the list updated although the request failed.
ManageUsers_handleDeleteUser_catch_removes(req) ==
    /\ page = "ManageUsers" /\ req.kind = "delete"
    /\ Settle(req, "error")
    /\ users' = RemoveId(req.snapshot, req.id)
    /\ effectPending' = TRUE
    /\ toast' = Toast("destructive", "Error")
    /\ UNCHANGED <<page, view, dialog, loans, borrowers, filteredUsers, loadState>>

ManageUsers_handleDeleteUser_catch(req) ==
    /\ page = "ManageUsers" /\ req.kind = "delete"
    /\ Settle(req, "error")
    /\ toast' = Toast("destructive", "Error")
    /\ UNCHANGED <<page, view, dialog, collections, loadState>>

ManageUsers_handleUpdateRole(userId, newRole) ==
    /\ page = "ManageUsers" /\ TableRendered
    /\ \E user \in Records(filteredUsers) :
         user.id = userId /\ ~UserControlsDisabled(user)
    /\ Send(Request("role", userId, newRole, users))
    /\ UNCHANGED <<page, view, dialog, collections, loadState, toast>>

\* handleUpdateRole with the filter effect not depending on users.
ManageUsers_handleUpdateRole_then_noEffect(req) ==
    /\ page = "ManageUsers" /\ req.kind = "role"
    /\ Settle(req, "ok")
    /\ users' = MapRole(req.snapshot, req.id, req.target)
    /\ toast' = Toast("default", "Role Updated")
    /\ UNCHANGED <<page, view, dialog, loans, borrowers, filteredUsers, effectPending,
                   loadState>>

ManageUsers_handleUpdateRole_then(req) ==
    /\ page = "ManageUsers" /\ req.kind = "role"
    /\ Settle(req, "ok")
    /\ users' = MapRole(req.snapshot, req.id, req.target)
    /\ effectPending' = TRUE
    /\ toast' = Toast("default", "Role Updated")
    /\ UNCHANGED <<page, view, dialog, loans, borrowers, filteredUsers, loadState>>

ManageUsers_handleUpdateRole_catch(req) ==
    /\ page = "ManageUsers" /\ req.kind = "role"
    /\ Settle(req, "error")
    /\ toast' = Toast("destructive", "Error")
    /\ UNCHANGED <<page, view, dialog, collections, loadState>>

----------------------------------------------------------------------------
(* The add dialog of the admin loans, admin borrowers and manage-users      *)
(* pages.                                                                   *)

AddPages == {"AdminLoans", "AdminBorrowers", "ManageUsers"}

\* The form by what handleAdd... tests: as initialised, edited with a
\* required field empty, every required field filled in.
Forms == {"blank", "partial", "complete"}

\* <Dialog open={isAdd...Open} onOpenChange={setIsAdd...Open}>, Cancel.
AddDialog_onOpenChange(open) ==
    /\ page \in AddPages /\ fetchPhase = "done"
    /\ open # isAddOpen
    /\ isAddOpen' = open
    /\ UNCHANGED <<page, view, newForm, collections, loadState, requests, toast>>

\* onChange / onValueChange of a field of the form: setNew...({...})
AddDialog_onChange(form) ==
    /\ page \in AddPages /\ isAddOpen
    /\ form # newForm
    /\ newForm' = form
    /\ UNCHANGED <<page, view, isAddOpen, collections, loadState, requests,
                   toast>>

----------------------------------------------------------------------------
Ids == 1..(MaxRecords + MaxRequests)

Next ==
    \/ AdminLoans_fetchLoans_loans
    \/ AdminLoans_fetchLoans_users
    \/ AdminLoans_fetchLoans_catch
    \/ \E id \in Ids, s \in LoanStatus : AdminLoans_handleUpdateStatus(id, s)
    \/ \E req \in InFlight : AdminLoans_handleUpdateStatus_then(req)
    \/ \E req \in InFlight : AdminLoans_handleUpdateStatus_catch(req)
    \/ AdminLoans_handleAddLoan_invalid
    \/ \E amount \in Amounts : AdminLoans_handleAddLoan(amount)
    \/ \E req \in InFlight : AdminLoans_handleAddLoan_then(req)
    \/ \E req \in InFlight : AdminLoans_handleAddLoan_catch(req)
    \/ VerifierLoans_fetchLoans_then
    \/ VerifierLoans_fetchLoans_catch
    \/ \E id \in Ids, s \in VerifierStatus :
         VerifierLoans_handleUpdateStatus(id, s)
    \/ \E req \in InFlight : VerifierLoans_handleUpdateStatus_then(req)
    \/ \E req \in InFlight : VerifierLoans_handleUpdateStatus_catch(req)
    \/ VerifierDashboard_fetchDashboardData_then
    \/ VerifierDashboard_fetchDashboardData_catch
    \/ \E id \in Ids, s \in LoanStatus :
         VerifierDashboard_handleStatusChange(id, s)
    \/ \E req \in InFlight : VerifierDashboard_handleStatusChange_then(req)
    \/ \E req \in InFlight : VerifierDashboard_handleStatusChange_catch(req)
    \/ AdminBorrowers_fetchBorrowers_then
    \/ AdminBorrowers_fetchBorrowers_catch
    \/ \E id \in Ids, s \in BorrowerStatus :
         AdminBorrowers_handleUpdateStatus(id, s)
    \/ \E req \in InFlight : AdminBorrowers_handleUpdateStatus_then(req)
    \/ \E req \in InFlight : AdminBorrowers_handleUpdateStatus_catch(req)
    \/ AdminBorrowers_handleAddBorrower_invalid
    \/ AdminBorrowers_handleAddBorrower
    \/ \E req \in InFlight : AdminBorrowers_handleAddBorrower_then(req)
    \/ \E req \in InFlight : AdminBorrowers_handleAddBorrower_catch(req)
    \/ VerifierBorrowers_fetchBorrowers_then
    \/ VerifierBorrowers_fetchBorrowers_catch
    \/ \E id \in Ids, s \in VerifierStatus :
         VerifierBorrowers_handleUpdateStatus(id, s)
    \/ \E req \in InFlight : VerifierBorrowers_handleUpdateStatus_then(req)
    \/ \E req \in InFlight : VerifierBorrowers_handleUpdateStatus_catch(req)
    \/ ManageUsers_fetchUsers_then
    \/ ManageUsers_fetchUsers_catch
    \/ ManageUsers_filterEffect
    \/ \E id \in Ids : ManageUsers_handleDeleteUser(id)
    \/ \E req \in InFlight : ManageUsers_handleDeleteUser_then(req)
    \/ \E req \in InFlight : ManageUsers_handleDeleteUser_catch(req)
    \/ \E id \in Ids, r \in UserRole : ManageUsers_handleUpdateRole(id, r)
    \/ \E req \in InFlight : ManageUsers_handleUpdateRole_then(req)
    \/ \E req \in InFlight : ManageUsers_handleUpdateRole_catch(req)
    \/ ManageUsers_handleAddUser_invalid
    \/ \E r \in UserRole : ManageUsers_handleAddUser(r)
    \/ \E req \in InFlight : ManageUsers_handleAddUser_then(req)
    \/ \E req \in InFlight : ManageUsers_handleAddUser_catch(req)
    \/ \E open \in BOOLEAN : AddDialog_onOpenChange(open)
    \/ \E form \in Forms : AddDialog_onChange(form)

Spec == Init /\ [][Next]_vars

\* An awaited request of the mount fetch is rejected: the catch runs.
FetchRejected ==
    \/ AdminLoans_fetchLoans_catch
    \/ VerifierLoans_fetchLoans_catch
    \/ VerifierDashboard_fetchDashboardData_catch
    \/ AdminBorrowers_fetchBorrowers_catch
    \/ VerifierBorrowers_fetchBorrowers_catch
    \/ ManageUsers_fetchUsers_catch

\* An awaited request of the mount fetch is resolved.
FetchResolved ==
    \/ AdminLoans_fetchLoans_loans
    \/ AdminLoans_fetchLoans_users
    \/ VerifierLoans_fetchLoans_then
    \/ VerifierDashboard_fetchDashboardData_then
    \/ AdminBorrowers_fetchBorrowers_then
    \/ VerifierBorrowers_fetchBorrowers_then
    \/ ManageUsers_fetchUsers_then

\* The requests of the mount fetch are answered: each api.get settles.
FairSpec == Spec /\ WF_vars(FetchResolved \/ FetchRejected)

----------------------------------------------------------------------------
(* What a render computes from the state.                                   *)

AdminLoans_filteredLoans ==
    SelectSeq(loans, LAMBDA loan :
        \/ includes(toLowerCase(loan.name), toLowerCase(searchTerm))
        \/ includes(toLowerCase(loan.reason), toLowerCase(searchTerm))
        \/ includes(toLowerCase(Spell(loan.status)), toLowerCase(searchTerm)))

VerifierLoans_filteredLoans ==
    SelectSeq(loans, LAMBDA loan :
        \/ includes(toLowerCase(loan.name), toLowerCase(searchTerm))
        \/ includes(toLowerCase(loan.reason), toLowerCase(searchTerm))
        \/ includes(toLowerCase(Spell(loan.status)), toLowerCase(searchTerm)))

AdminBorrowers_filteredBorrowers ==
    SelectSeq(borrowers, LAMBDA borrower :
        \/ includes(toLowerCase(borrower.name), toLowerCase(searchTerm))
        \/ includes(toLowerCase(borrower.email), toLowerCase(searchTerm))
        \/ includes(borrower.phone, searchTerm))

VerifierBorrowers_filteredBorrowers ==
    SelectSeq(borrowers, LAMBDA borrower :
        \/ includes(toLowerCase(borrower.name), toLowerCase(searchTerm))
        \/ includes(toLowerCase(borrower.email), toLowerCase(searchTerm))
        \/ includes(borrower.phone, searchTerm))

\* list.filter(x => x.status === status).length
StatusCount(list, status) ==
    Len(SelectSeq(list, LAMBDA x : x.status = status))

\* toFixed1 cutting the digits after the first decimal off.
toFixed1_truncating(num, den) == (1000 * num) \div den

\* ((num / den) * 100).toFixed(1), in tenths: the nearest tenth, the upper
\* one of two equally near.
toFixed1(num, den) == (2000 * num + den) \div (2 * den)

\* {list.length > 0 ? ((count / list.length) * 100).toFixed(1) : 0}, in tenths
StatusPercent(list, status) ==
    IF Len(list) > 0 THEN toFixed1(StatusCount(list, status), Len(list))
    ELSE 0

\* PercentPaid taken of the amount lent instead of the amount payable.
PercentPaid_ofAmount(loan) ==
    IF loan.totalAmountPayable > 0
    THEN toFixed1(loan.amountPaid, loan.amount)
    ELSE 0

\* The percentage of the Paid cell of the admin LoanTable, in tenths.
PercentPaid(loan) ==
    IF loan.totalAmountPayable > 0
    THEN toFixed1(loan.amountPaid, loan.totalAmountPayable)
    ELSE 0

RECURSIVE reduceSum(_, _)
\* list.reduce((sum, x) => sum + x[field], 0)
reduceSum(list, field) ==
    IF list = <<>> THEN 0
    ELSE Head(list)[field] + reduceSum(Tail(list), field)

\* The statistics of the admin loans page.
AdminLoans_totalLoans == Len(loans)

AdminLoans_totalAmount == reduceSum(loans, "amount")

\* totalDisbursed summing what was paid instead of what was lent.
AdminLoans_totalDisbursed_ofPaid ==
    reduceSum(SelectSeq(loans, LAMBDA loan : loan.status \in DisbursedStatuses),
              "amountPaid")

AdminLoans_totalDisbursed ==
    reduceSum(SelectSeq(loans, LAMBDA loan : loan.status \in DisbursedStatuses),
              "amount")

AdminLoans_totalRepaid == reduceSum(loans, "amountPaid")

\* The list the table of the page is given (the tab "all").
Shown ==
    CASE page = "AdminLoans" -> AdminLoans_filteredLoans
      [] page = "VerifierLoans" -> VerifierLoans_filteredLoans
      [] page = "AdminBorrowers" -> AdminBorrowers_filteredBorrowers
      [] page = "VerifierBorrowers" -> VerifierBorrowers_filteredBorrowers
      [] page = "ManageUsers" -> filteredUsers
      [] OTHER -> loans

\* The pages that show a card per status, and the statuses they count.
\* The status tabs of a page: the values of its TabsTrigger elements other
\* than "all".
StatusTabs ==
    CASE page = "AdminLoans" ->
           {"pending", "verified", "approved", "disbursed", "repaying",
            "completed", "defaulted"}
      [] page = "AdminBorrowers" -> {"active", "inactive", "blacklisted"}
      [] page \in {"VerifierLoans", "VerifierBorrowers"} ->
           {"pending", "verified", "rejected"}
      [] OTHER -> {}

\* The rows handed to the table of a status tab:
\* filteredLoans.filter((l) => l.status === tab)
TabRows(tab) == SelectSeq(Shown, LAMBDA r : r.status = tab)

CountPages == {"VerifierLoans", "AdminBorrowers", "VerifierBorrowers"}

CountedStatuses ==
    IF page = "AdminBorrowers" THEN BorrowerStatus ELSE VerifierStatus

\* const [itemsPerPage] = useState(5)
PageSize == 5

\* Array.prototype.slice(from, to) for 0 <= from <= to.
slice(items, from, to) ==
    SubSeq(items, from + 1, IF to < Len(items) THEN to ELSE Len(items))

\* Math.ceil(items.length / itemsPerPage)
TotalPagesOf(items) == (Len(items) + PageSize - 1) \div PageSize

\* PageRows with the first index one too far.
PageRows_fromNext(items, p) ==
    LET indexOfLastItem == p * PageSize
        indexOfFirstItem == indexOfLastItem - PageSize + 1
    IN  slice(items, indexOfFirstItem, indexOfLastItem)

\* The rows of page p: items.slice(indexOfFirstItem, indexOfLastItem).
PageRows(items, p) ==
    LET indexOfLastItem == p * PageSize
        indexOfFirstItem == indexOfLastItem - PageSize
    IN  slice(items, indexOfFirstItem, indexOfLastItem)

totalPages == TotalPagesOf(Shown)

currentRows == PageRows(Shown, currentPage)

\* The pager is rendered: items.length > itemsPerPage.
PagerRendered == TableRendered /\ Len(Shown) > PageSize

----------------------------------------------------------------------------
(* A page after its mount fetch, with the search box and the pager.  The    *)
(* lists the backend answered are drawn from four families: statuses vary   *)
(* (for the counts), the length varies and the first k records match a term *)
(* the others do not (for the pager), the searched texts of one record vary *)
(* (for the search), and the paid amounts of one loan vary.                 *)

MaxStatRecords == 4

MaxShown == 7

FilterPages == {"AdminLoans", "VerifierLoans", "AdminBorrowers",
                "VerifierBorrowers", "ManageUsers"}

TablePages == FilterPages \ {"ManageUsers"}

PaidAmounts == {0, 1, 2, 25000, 115000}

PayableAmounts == {0, 3, 115000}

AdminLoanOf(i, s) == AdminLoan(i, s, 1000)

VerifierLoanOf(i, s) == VerifierLoan(i, s, 1000)

\* The record of the given kind a page is loaded with.
LoadedRecord(kind, i, s) ==
    CASE kind = "AdminLoan" -> AdminLoanOf(i, s)
      [] kind = "VerifierLoan" -> VerifierLoanOf(i, s)
      [] OTHER -> Borrower(i, s)

\* Lists of up to MaxStatRecords records of a kind, of every status in S.
StatusFamily(kind, S) ==
    UNION { { [i \in 1..n |-> LoadedRecord(kind, i, f[i])] : f \in [1..n -> S] } :
            n \in 0..MaxStatRecords }

\* Lists of up to MaxShown records; the first k are named "n", the rest "o".
LengthFamily(kind, status) ==
    { [i \in 1..n |->
         [LoadedRecord(kind, i, status)
            EXCEPT !.name = IF i <= k THEN <<"n">> ELSE <<"o">>]] :
      n \in 0..MaxShown, k \in 0..MaxShown }

LoanTextFamily(kind, S) ==
    { << [LoadedRecord(kind, 1, st) EXCEPT !.name = nm, !.reason = rs] >> :
      st \in S, nm \in Texts, rs \in Texts }

BorrowerTextFamily(kind, status) ==
    { << [LoadedRecord(kind, 1, status) EXCEPT !.name = nm, !.phone = ph] >> :
      nm \in Texts, ph \in Texts }

PaidFamily ==
    { << [AdminLoan(1, "repaying", 1000) EXCEPT
             !.amountPaid = paid, !.totalAmountPayable = payable] >> :
      paid \in PaidAmounts, payable \in PayableAmounts }

LoadedLoans ==
    CASE page = "AdminLoans" ->
           LengthFamily("AdminLoan", "approved")
           \cup LoanTextFamily("AdminLoan", {"pending", "approved"})
           \cup PaidFamily
      [] page = "VerifierLoans" ->
           StatusFamily("VerifierLoan", VerifierStatus)
           \cup LengthFamily("VerifierLoan", "verified")
           \cup LoanTextFamily("VerifierLoan", {"pending", "verified"})
      [] OTHER -> {<<>>}

LoadedBorrowers ==
    CASE page = "AdminBorrowers" ->
           StatusFamily("Borrower", BorrowerStatus)
           \cup LengthFamily("Borrower", "active")
           \cup BorrowerTextFamily("Borrower", "active")
      [] page = "VerifierBorrowers" ->
           StatusFamily("Borrower", VerifierStatus)
           \cup LengthFamily("Borrower", "pending")
           \cup BorrowerTextFamily("Borrower", "pending")
      [] OTHER -> {<<>>}

LoadedUsers ==
    IF page = "ManageUsers"
    THEN { [i \in DOMAIN list |-> [list[i] EXCEPT !.name = nm]] :
           list \in UserLists, nm \in Texts }
    ELSE {<<>>}

ViewInit ==
    /\ page \in FilterPages
    /\ loans \in LoadedLoans
    /\ borrowers \in LoadedBorrowers
    /\ users \in LoadedUsers
    /\ filteredUsers = users
    /\ effectPending = FALSE
    /\ isLoading = FALSE
    /\ error = ""
    /\ fetchPhase = "done"
    /\ inflight = EmptyBag
    /\ issued = 0
    /\ toast = NoToast
    /\ lastResponse = "none"
    /\ searchTerm = <<>>
    /\ currentPage = 1
    /\ isAddOpen = FALSE
    /\ newForm = "blank"

\* onChange={(e) => setSearchTerm(e.target.value)}
setSearchTerm(term) ==
    /\ page \in FilterPages
    /\ term # searchTerm
    /\ searchTerm' = term
    /\ effectPending' = (page = "ManageUsers")
    /\ UNCHANGED <<page, loans, borrowers, users, filteredUsers, loadState,
                   requests, toast, currentPage, dialog>>

\* The chevron_left button: disabled={currentPage === 1}
Table_previousPage ==
    /\ page \in TablePages /\ PagerRendered
    /\ currentPage # 1
    /\ currentPage' = currentPage - 1
    /\ UNCHANGED <<page, collections, loadState, requests, toast, searchTerm,
                   dialog>>

\* The chevron_right button: disabled={currentPage === totalPages}
Table_nextPage ==
    /\ page \in TablePages /\ PagerRendered
    /\ currentPage # totalPages
    /\ currentPage <= MaxShown
    /\ currentPage' = currentPage + 1
    /\ UNCHANGED <<page, collections, loadState, requests, toast, searchTerm,
                   dialog>>

ViewNext ==
    \/ \E term \in Texts : setSearchTerm(term)
    \/ ManageUsers_filterEffect
    \/ Table_previousPage
    \/ Table_nextPage

ViewSpec == ViewInit /\ [][ViewNext]_vars

\* What is typed into the search box of the manage-users page: nothing, or
\* one letter in either case.
UserTerms == {<<>>, <<"n">>, <<"N">>}

\* The names of the users the manage-users page is loaded with.
UserNames == {<<"n">>, <<"o">>}

\* The manage-users page after its load.
UsersInit ==
    /\ ViewInit /\ page = "ManageUsers"
    /\ \A user \in Records(users) : user.name \in UserNames

\* The manage-users page: the search box and the user operations together.
UsersNext ==
    \/ \E term \in UserTerms : setSearchTerm(term)
    \/ ManageUsers_filterEffect
    \/ \E id \in Ids : ManageUsers_handleDeleteUser(id)
    \/ \E req \in InFlight : ManageUsers_handleDeleteUser_then(req)
    \/ \E req \in InFlight : ManageUsers_handleDeleteUser_catch(req)
    \/ \E id \in Ids, r \in UserRole : ManageUsers_handleUpdateRole(id, r)
    \/ \E req \in InFlight : ManageUsers_handleUpdateRole_then(req)
    \/ \E req \in InFlight : ManageUsers_handleUpdateRole_catch(req)
    \/ ManageUsers_handleAddUser_invalid
    \/ \E r \in UserRole : ManageUsers_handleAddUser(r)
    \/ \E req \in InFlight : ManageUsers_handleAddUser_then(req)
    \/ \E req \in InFlight : ManageUsers_handleAddUser_catch(req)
    \/ \E open \in BOOLEAN : AddDialog_onOpenChange(open)
    \/ \E form \in Forms : AddDialog_onChange(form)

UsersSpec == UsersInit /\ [][UsersNext]_vars

----------------------------------------------------------------------------
(* The transition table of the specification, and what the claims need to   *)
(* speak about the pages.                                                   *)

TerminalStatuses == {"completed", "defaulted", "rejected"}

AdminTable(from) ==
    CASE from = "pending" -> {"verified", "approved", "rejected"}
      [] from = "verified" -> {"approved", "rejected"}
      [] from = "approved" -> {"disbursed", "rejected"}
      [] from = "disbursed" -> {"repaying", "defaulted"}
      [] from = "repaying" -> {"completed", "defaulted"}
      [] OTHER -> {}

VerifierTable(from) ==
    IF from = "pending" THEN {"verified", "rejected"} ELSE {}

TransitionTable(role, from) ==
    IF role = "admin" THEN AdminTable(from) ELSE VerifierTable(from)

ActingRole == IF page \in {"AdminLoans", "AdminBorrowers", "ManageUsers"}
              THEN "admin" ELSE "verifier"

\* The collection the mounted page holds.
Held == CASE page \in LoanPages -> loans
          [] page \in BorrowerPages -> borrowers
          [] OTHER -> users

HasId(list, id) == \E i \in DOMAIN list : list[i].id = id

RecordOf(list, id) == list[CHOOSE i \in DOMAIN list : list[i].id = id]

StatusOf(list, id) == RecordOf(list, id).status

\* Another request may still be issued within the bound of the model.
RequestBudgetLeft == issued < MaxRequests

\* The response to req is handled in this step, with the given outcome.
Handled(req, outcome) ==
    /\ BagIn(req, inflight)
    /\ inflight' = inflight (-) SetToBag({req})
    /\ lastResponse' = outcome

\* C1: on the three loan pages every change of the status held for a loan,
\* from s to t, is an edge (s, t) of the acting role's transition table,
\* whatever the interleaving of clicks and responses.
C1_StatusChangesAreTableEdges ==
    [][(page \in LoanPages) =>
         \A id \in Ids :
            (/\ HasId(loans, id) /\ HasId(loans', id)
             /\ StatusOf(loans', id) # StatusOf(loans, id))
            => StatusOf(loans', id)
                  \in TransitionTable(ActingRole, StatusOf(loans, id))]_vars

\* C2: once the status held for a loan is completed, defaulted or rejected
\* it never changes again, also when a response to an earlier request
\* arrives afterwards.
C2_TerminalStatusIsFinal ==
    [][(page \in LoanPages) =>
         \A id \in Ids :
            (/\ HasId(loans, id) /\ HasId(loans', id)
             /\ StatusOf(loans, id) \in TerminalStatuses)
            => StatusOf(loans', id) = StatusOf(loans, id)]_vars

VerifierClick(id, t) ==
    IF page = "VerifierLoans" THEN VerifierLoans_handleUpdateStatus(id, t)
    ELSE VerifierBorrowers_handleUpdateStatus(id, t)

\* C3: on the verifier loans page and the verifier borrowers page a status
\* change can be requested for a record exactly when the record is shown as
\* pending and the target is verified or rejected; every request in flight
\* was issued for a record shown as pending, with one of these targets.
C3_VerifierActsOnPendingOnly ==
    page \in {"VerifierLoans", "VerifierBorrowers"} =>
        /\ \A r \in Records(Held), t \in VerifierStatus :
              (ENABLED VerifierClick(r.id, t))
              <=> (/\ TableRendered /\ RequestBudgetLeft
                   /\ r.status = "pending" /\ t \in {"verified", "rejected"})
        /\ \A req \in InFlight :
              /\ req.kind = "status"
              /\ StatusOf(req.snapshot, req.id) = "pending"
              /\ req.target \in {"verified", "rejected"}

\* A verifier page that shows a borrower as verified after an update, with a
\* request for another, pending, borrower in flight.
C3_Witness ==
    /\ page = "VerifierBorrowers" /\ toast.title = "Status Updated"
    /\ \E b \in Records(borrowers) : b.status = "verified"
    /\ \E req \in InFlight : StatusOf(borrowers, req.id) = "pending"

\* C4: every status change the admin loans page can request for a loan shown
\* in status s, and every request it has in flight, targets a status the
\* admin rows of the transition table allow from s; nothing can be requested
\* for a loan shown as completed, defaulted or rejected.
C4_AdminRequestsWithinTable ==
    page = "AdminLoans" =>
        /\ \A loan \in Records(loans), t \in LoanStatus :
              (ENABLED AdminLoans_handleUpdateStatus(loan.id, t))
              => (t \in AdminTable(loan.status)
                  /\ loan.status \notin TerminalStatuses)
        /\ \A req \in InFlight :
              req.kind = "status"
              => req.target \in AdminTable(StatusOf(req.snapshot, req.id))

\* The admin loans page with a Mark Default request in flight and a loan in
\* a terminal status on show.
C4_Witness ==
    /\ page = "AdminLoans" /\ TableRendered
    /\ \E req \in InFlight : req.kind = "status" /\ req.target = "defaulted"
    /\ \E loan \in Records(loans) : loan.status \in TerminalStatuses

\* C5, as claimed: the admin can request every edge of the admin rows of the
\* transition table, pending to approved among them.
C5_AdminCanRequestEveryTableEdge ==
    (page = "AdminLoans" /\ TableRendered /\ RequestBudgetLeft) =>
        \A loan \in Records(loans) :
           \A t \in AdminTable(loan.status) :
              ENABLED AdminLoans_handleUpdateStatus(loan.id, t)

\* C5, amended: the admin can request every edge of the admin rows except
\* pending to approved, which the page does not offer.
C5_AdminCanRequestEveryOfferedEdge ==
    (page = "AdminLoans" /\ TableRendered /\ RequestBudgetLeft) =>
        \A loan \in Records(loans) :
           /\ \A t \in AdminTable(loan.status) :
                 (loan.status = "pending" /\ t = "approved")
                 \/ ENABLED AdminLoans_handleUpdateStatus(loan.id, t)
           /\ loan.status = "pending" =>
                 ~ENABLED AdminLoans_handleUpdateStatus(loan.id, "approved")

\* The admin loans page, able to issue a request, showing a pending loan
\* beside a loan an update has just moved to approved.
C5_Witness ==
    /\ page = "AdminLoans" /\ TableRendered /\ RequestBudgetLeft
    /\ toast.title = "Status Updated"
    /\ \E loan \in Records(loans) : loan.status = "pending"
    /\ \E loan \in Records(loans) : loan.status = "approved"

\* C7: when approved to disbursed succeeds on a loan whose disbursementDate
\* is unset, the loan held afterwards is disbursed with a disbursementDate.
C7_DisburseStampsDate ==
    [][(page = "AdminLoans") =>
         \A id \in Ids :
            (/\ HasId(loans, id) /\ HasId(loans', id)
             /\ StatusOf(loans, id) = "approved"
             /\ RecordOf(loans, id).disbursementDate = "unset"
             /\ StatusOf(loans', id) = "disbursed")
            => RecordOf(loans', id).disbursementDate = "set"]_vars

\* C8: every loan the admin loans page holds has its disbursementDate set if
\* and only if its status is disbursed or later (the loans are loaded so).
C8_DateIffDisbursed ==
    page = "AdminLoans" =>
        \A loan \in Records(loans) :
           loan.disbursementDate = "set" <=> loan.status \in DisbursedStatuses

\* What a status update of record req.id to req.target may make of a record.
UpdatedRecord(r, req) ==
    {[r EXCEPT !.status = req.target]}
    \cup (IF page = "AdminLoans" /\ req.target = "disbursed"
          THEN {[r EXCEPT !.status = req.target, !.disbursementDate = "set"]}
          ELSE {})

\* C9: a successful status update of record r to t changes, in the held
\* collection, the status of r to t (and stamps the disbursementDate) and
\* nothing else: no other field, no other record, not the length or order.
C9_UpdateChangesStatusOnly ==
    [][(page \in LoanPages \cup BorrowerPages) =>
         \A req \in InFlight :
            (req.kind = "status" /\ Handled(req, "ok")) =>
               /\ Len(Held') = Len(Held)
               /\ \A i \in DOMAIN Held :
                     IF Held[i].id = req.id
                     THEN Held'[i] \in UpdatedRecord(Held[i], req)
                     ELSE Held'[i] = Held[i]]_vars

\* C10: the step that handles a failed status update, role update or delete
\* raises a destructive toast and leaves every held collection as it was.
C10_FailureLeavesCollection ==
    [][\A req \in InFlight :
          Handled(req, "error") =>
             /\ toast'.variant = "destructive"
             /\ loans' = loans /\ borrowers' = borrowers /\ users' = users]_vars

\* The manage-users page after a failed request, the users still held.
C10_Witness ==
    /\ page = "ManageUsers" /\ lastResponse = "error"
    /\ toast = Toast("destructive", "Error")
    /\ Len(users) = MaxRecords

RECURSIVE SumOver(_, _)
\* The sum of f[x] over the finite set S.
SumOver(f, S) ==
    IF S = {} THEN 0
    ELSE LET x == CHOOSE y \in S : TRUE IN f[x] + SumOver(f, S \ {x})

\* C11: on every page that shows a count per status (verifier loans, admin
\* borrowers, verifier borrowers) the counts of the statuses sum to the
\* number of records held, after any loads, additions and status updates.
C11_CountsPartitionTheCollection ==
    page \in CountPages =>
        SumOver([s \in CountedStatuses |-> StatusCount(Held, s)],
                CountedStatuses) = Len(Held)

\* The admin borrowers page holding a blacklisted borrower and a borrower an
\* addition has just appended.
C11_Witness ==
    /\ page = "AdminBorrowers" /\ toast.title = "Borrower Added"
    /\ Len(borrowers) = MaxRecords
    /\ borrowers[1].status = "blacklisted"
    /\ borrowers[Len(borrowers)].id > MaxRecords

Abs(x) == IF x < 0 THEN -x ELSE x

\* tenths is a nearest number of tenths to num / den * 100.
NearestTenth(tenths, num, den) == 2 * Abs(tenths * den - 1000 * num) <= den

\* The number of records of list with the given status.
Population(list, status) ==
    Cardinality({i \in DOMAIN list : list[i].status = status})

\* C12: for every collection and every status counted, the percentage shown
\* is count / total * 100 rounded to one decimal, and 0 for every status
\* when the collection is empty.
C12_PercentagesAreRounded ==
    page \in CountPages =>
        \A st \in CountedStatuses :
           IF Len(Held) = 0 THEN StatusPercent(Held, st) = 0
           ELSE NearestTenth(StatusPercent(Held, st),
                             Population(Held, st), Len(Held))

\* Statuses pending, verified, verified, rejected: counts 1, 2, 1 and
\* percentages 25.0, 50.0, 25.0.
C12_Witness ==
    /\ page = "VerifierLoans" /\ Len(loans) = 4
    /\ [i \in 1..4 |-> loans[i].status]
          = <<"pending", "verified", "verified", "rejected">>
    /\ StatusCount(loans, "pending") = 1 /\ StatusPercent(loans, "pending") = 250
    /\ StatusCount(loans, "verified") = 2
    /\ StatusPercent(loans, "verified") = 500
    /\ StatusCount(loans, "rejected") = 1
    /\ StatusPercent(loans, "rejected") = 250

\* C13: on the admin loans page totalLoans is the number of loans held,
\* totalAmount the sum of their amounts, totalDisbursed the sum of the amounts
\* of exactly the disbursed, repaying, completed and defaulted loans, and
\* totalRepaid the sum of amountPaid over all loans.
C13_TotalsOfTheLoans ==
    page = "AdminLoans" =>
        LET amount == [i \in DOMAIN loans |-> loans[i].amount]
            paid == [i \in DOMAIN loans |-> loans[i].amountPaid]
            disbursed ==
                {i \in DOMAIN loans :
                    loans[i].status
                       \in {"disbursed", "repaying", "completed", "defaulted"}}
        IN  /\ AdminLoans_totalLoans = Cardinality(DOMAIN loans)
            /\ AdminLoans_totalAmount = SumOver(amount, DOMAIN loans)
            /\ AdminLoans_totalDisbursed = SumOver(amount, disbursed)
            /\ AdminLoans_totalRepaid = SumOver(paid, DOMAIN loans)

\* The admin loans page after an addition and an update, holding a loan that
\* counts as disbursed and one that does not.
C13_Witness ==
    /\ page = "AdminLoans" /\ lastResponse = "ok"
    /\ \E loan \in Records(loans) : loan.id > MaxRecords
    /\ 0 < AdminLoans_totalDisbursed
    /\ AdminLoans_totalDisbursed < AdminLoans_totalAmount
    /\ 0 < AdminLoans_totalRepaid

\* C14: the percent paid shown for a loan is amountPaid / totalAmountPayable
\* * 100 rounded to one decimal, and 0 when totalAmountPayable is 0.
C14_PercentPaidIsRounded ==
    page = "AdminLoans" =>
        \A loan \in Records(loans) :
           IF loan.totalAmountPayable = 0 THEN PercentPaid(loan) = 0
           ELSE NearestTenth(PercentPaid(loan),
                             loan.amountPaid, loan.totalAmountPayable)

\* amountPaid 25000 of totalAmountPayable 115000 is shown as 21.7.
C14_Witness ==
    /\ page = "AdminLoans"
    /\ \E loan \in Records(loans) :
          /\ loan.amountPaid = 25000 /\ loan.totalAmountPayable = 115000
          /\ PercentPaid(loan) = 217

\* term, lower-cased, is a substring of text, lower-cased.
FoundIn(text, term) == includes(toLowerCase(text), toLowerCase(term))

\* C15: search is a case-insensitive substring match on every searched
\* field: a borrower is shown exactly when the lower-cased term is a
\* substring of the lower-cased name, email or phone, a loan exactly when it
\* is a substring of the lower-cased borrower name, reason or status.
C15_SearchIgnoresCase ==
    page \in TablePages =>
        \A r \in Records(Held) :
           r \in Records(Shown)
           <=> IF page \in BorrowerPages
               THEN \/ FoundIn(r.name, searchTerm)
                    \/ FoundIn(r.email, searchTerm)
                    \/ FoundIn(r.phone, searchTerm)
               ELSE \/ FoundIn(r.name, searchTerm)
                    \/ FoundIn(r.reason, searchTerm)
                    \/ FoundIn(Spell(r.status), searchTerm)

\* C16: with the empty search term every page that filters shows the held
\* collection unchanged: the same records in the same order.
C16_EmptyTermShowsAll ==
    (page \in FilterPages /\ searchTerm = <<>> /\ ~effectPending) =>
        Shown = Held

\* The search box emptied again on the manage-users page and the effect run;
\* the verifier borrowers page on its second page with no term typed.
C16_Witness ==
    /\ searchTerm = <<>> /\ ~effectPending
    /\ \/ page = "VerifierBorrowers" /\ currentPage = 2
       \/ page = "ManageUsers" /\ Len(filteredUsers) = MaxRecords

RECURSIVE ConcatPages(_, _)
\* The rows of pages 1..n of items, one page after the other.
ConcatPages(items, n) ==
    IF n = 0 THEN <<>> ELSE ConcatPages(items, n - 1) \o PageRows(items, n)

\* C17: with page size 5 and totalPages = ceil(length / 5), page p shows the
\* items at the 0-based indices [(p-1)*5, p*5) that exist, and the pages
\* 1..totalPages one after the other are the collection, every item once.
C17_PagesPartitionTheCollection ==
    page \in TablePages =>
        /\ 5 * totalPages >= Len(Shown) /\ 5 * totalPages < Len(Shown) + 5
        /\ \A p \in 1..totalPages :
              LET first == (p - 1) * 5
                  last == IF p * 5 < Len(Shown) THEN p * 5 ELSE Len(Shown)
              IN  PageRows(Shown, p) = [j \in 1..(last - first) |-> Shown[first + j]]
        /\ ConcatPages(Shown, totalPages) = Shown

\* A table of more than five rows on its second page.
C17_Witness ==
    /\ page \in TablePages /\ Len(Shown) = MaxShown /\ totalPages = 2
    /\ currentPage = 2
    /\ Len(currentRows) = MaxShown - 5
    /\ currentRows[1] = Shown[6]

\* C18: the current page of a table that shows records is at least 1 and at
\* most totalPages = ceil(length / 5) of the collection it shows, after any
\* previous/next clicks and search-term changes.
C18_CurrentPageWithinRange ==
    (page \in TablePages /\ Len(Shown) > 0) =>
        (1 <= currentPage /\ currentPage <= totalPages)

\* The _ids of the records of a list, in its order.
IdsOf(list) == [i \in DOMAIN list |-> list[i].id]

\* C19: no operation adds a record to, or removes a record from, a
\* collection a page holds: a click and the handling of a response leave the
\* _ids of the loans, borrowers and users held as they were.
C19_NoRecordAddedOrRemoved ==
    [][(issued' # issued \/ inflight' # inflight) =>
          /\ IdsOf(loans') = IdsOf(loans)
          /\ IdsOf(borrowers') = IdsOf(borrowers)
          /\ IdsOf(users') = IdsOf(users)]_vars

\* C19, amended: the program does create and delete records through the
\* backend.  A successful add-loan holds the created loan in front of the
\* list captured at the click, a successful add-borrower or add-user holds
\* the created record behind it, a successful delete holds the captured list
\* without that user, a successful status or role update holds the records of
\* the captured list; a click and a failed request change no collection.
C19_OnlyAddAndDeleteChangeMembership ==
    [][/\ \A req \in InFlight :
            /\ Handled(req, "error") => collections' = collections
            /\ Handled(req, "ok") =>
                  /\ page \in LoanPages \/ loans' = loans
                  /\ page \in BorrowerPages \/ borrowers' = borrowers
                  /\ page = "ManageUsers" \/ users' = users
                  /\ CASE req.kind = "add" ->
                             /\ ~HasId(req.snapshot, req.target.id)
                             /\ Held' = IF page = "AdminLoans"
                                        THEN <<req.target>> \o req.snapshot
                                        ELSE req.snapshot \o <<req.target>>
                        [] req.kind = "delete" ->
                             /\ IdsOf(Held') =
                                  SelectSeq(IdsOf(req.snapshot),
                                            LAMBDA id : id # req.id)
                             /\ Records(Held') \subseteq Records(req.snapshot)
                        [] OTHER -> IdsOf(Held') = IdsOf(req.snapshot)
       /\ issued' # issued => collections' = collections]_vars

\* A loan created on the admin loans page and a user deleted on the
\* manage-users page, each after the response was handled.
C19_Witness ==
    /\ lastResponse = "ok" /\ inflight = EmptyBag
    /\ \/ /\ page = "AdminLoans" /\ toast.title = "Loan Added"
          /\ Len(loans) = MaxRecords /\ loans[1].id > MaxRecords
       \/ /\ page = "ManageUsers" /\ toast.title = "User Deleted"
          /\ Len(users) = MaxRecords - 1

\* C20: on the admin borrowers page a status change can be requested for a
\* borrower shown as active, inactive or blacklisted exactly when the target
\* is one of the two other statuses; every request in flight targets a status
\* other than the one its borrower was shown in.
C20_BorrowerTargetDiffers ==
    page = "AdminBorrowers" =>
        /\ \A b \in Records(borrowers) : b.status \in BorrowerStatus
        /\ \A b \in Records(borrowers), t \in BorrowerStatus \cup LoanStatus :
              (ENABLED AdminBorrowers_handleUpdateStatus(b.id, t))
              <=> (/\ TableRendered /\ RequestBudgetLeft
                   /\ t \in BorrowerStatus \ {b.status})
        /\ \A req \in InFlight :
              req.kind = "status" =>
                 /\ req.target \in BorrowerStatus
                 /\ req.target # StatusOf(req.snapshot, req.id)

\* The admin borrowers page showing a borrower as blacklisted after an
\* update, with a request to activate a blacklisted borrower in flight.
C20_Witness ==
    /\ page = "AdminBorrowers" /\ toast.title = "Status Updated"
    /\ \E b \in Records(borrowers) : b.status = "blacklisted"
    /\ \E req \in InFlight :
          /\ req.kind = "status" /\ req.target = "active"
          /\ StatusOf(req.snapshot, req.id) = "blacklisted"

\* The field a status or role update sets: the role of a user, the status of
\* a loan or a borrower.
Updatable(r) == IF page = "ManageUsers" THEN r.role ELSE r.status

\* C21: no status update is lost: the step that handles the accepted update
\* of one record leaves the status (the role, for users) held for every other
\* record as it was, so that after the responses to two updates in flight
\* together the page shows both new statuses.
C21_NoStatusUpdateLost ==
    [][\A req \in InFlight :
          (req.kind \in {"status", "role"} /\ Handled(req, "ok")) =>
             \A r \in Records(Held) :
                (r.id # req.id /\ HasId(Held', r.id)) =>
                   Updatable(RecordOf(Held', r.id)) = Updatable(r)]_vars

\* C22: the status a page holds for a record changes to t only in the step
\* that handles a successful response to a request for (that record, t);
\* while the request is in flight, and when it fails, the status stays.
C22_StatusChangesOnConfirmationOnly ==
    [][(page \in LoanPages \cup BorrowerPages) =>
         \A r \in Records(Held) :
            (HasId(Held', r.id) /\ StatusOf(Held', r.id) # r.status) =>
               \E req \in InFlight :
                  /\ req.kind = "status" /\ Handled(req, "ok")
                  /\ req.id = r.id
                  /\ req.target = StatusOf(Held', r.id)]_vars

RECURSIVE WalksFrom(_, _)
\* The sequences of statuses a loan shown in status s goes through when up
\* to n status buttons are clicked one after another, each on the status
\* then shown.
WalksFrom(s, n) ==
    {<<s>>}
    \cup (IF n = 0 THEN {}
          ELSE UNION { { <<s>> \o w : w \in WalksFrom(t, n - 1) } :
                       t \in AdminLoanButtons(s) })

\* C23: the lifecycle the admin loans page offers is acyclic and bounded: a
\* sequence of status actions on one loan visits no status twice, has at most
\* 5 steps from pending, and can go on exactly until the loan is completed,
\* defaulted or rejected.
C23_LifecycleIsAcyclicAndBounded ==
    page = "AdminLoans" =>
        /\ \A s \in LoanStatus \cup {loan.status : loan \in Records(loans)} :
              \A w \in WalksFrom(s, Cardinality(LoanStatus)) :
                 /\ \A i, j \in DOMAIN w : i # j => w[i] # w[j]
                 /\ AdminLoanButtons(w[Len(w)]) = {}
                       <=> w[Len(w)] \in TerminalStatuses
        /\ \A w \in WalksFrom("pending", Cardinality(LoanStatus)) :
              Len(w) - 1 <= 5

\* A loan of the admin loans page brought to completed by a status action,
\* the five-step walk from pending to completed being offered.
C23_Witness ==
    /\ page = "AdminLoans" /\ TableRendered /\ lastResponse = "ok"
    /\ \E loan \in Records(loans) :
          loan.status = "completed" /\ AdminLoanButtons(loan.status) = {}
    /\ <<"pending", "verified", "approved", "disbursed", "repaying",
         "completed">> \in WalksFrom("pending", 5)

\* C24: on the admin loans page totalDisbursed never exceeds totalAmount,
\* and a successful status action applied to the loans as they are held (one
\* action at a time, the loans and their amounts fixed) never decreases it.
C24_TotalDisbursedNeverDecreases ==
    /\ [](page = "AdminLoans" =>
             AdminLoans_totalDisbursed <= AdminLoans_totalAmount)
    /\ [][(page = "AdminLoans") =>
            \A req \in InFlight :
               (/\ req.kind = "status" /\ Handled(req, "ok")
                /\ req.snapshot = loans)
               => AdminLoans_totalDisbursed' >= AdminLoans_totalDisbursed]_vars

\* The admin loans page after a status action, every loan held now counted
\* as disbursed.
C24_Witness ==
    /\ page = "AdminLoans" /\ lastResponse = "ok" /\ inflight = EmptyBag
    /\ toast.title = "Status Updated"
    /\ Len(loans) = MaxRecords
    /\ \E loan \in Records(loans) : loan.status = "disbursed"
    /\ AdminLoans_totalDisbursed = AdminLoans_totalAmount

\* C25: on every page, once the requests of the mount fetch are answered the
\* loading flag becomes false and stays false, and the error message is set
\* exactly when the fetch failed: the step that ends the fetch sets it when a
\* request was rejected and leaves it empty otherwise, and no later step
\* changes it.
C25_LoadingEndsWithTheFetch ==
    /\ <>[](fetchPhase = "done" /\ ~isLoading)
    /\ [](fetchPhase = "done" <=> ~isLoading)
    /\ [](fetchPhase # "done" => error = "")
    /\ [][/\ FetchRejected => (fetchPhase' = "done" /\ error' # "")
          /\ (FetchResolved /\ fetchPhase' = "done") => error' = ""
          /\ fetchPhase = "done" =>
                (fetchPhase' = "done" /\ error' = error)]_vars

\* A page whose fetch failed and a request of which was answered later: not
\* loading, the error message shown.
C25_Witness ==
    /\ fetchPhase = "done" /\ ~isLoading
    /\ \/ page = "VerifierDashboard" /\ error = "Failed to load dashboard data"
       \/ page = "ManageUsers" /\ error = "" /\ lastResponse = "ok"

\* C26: the load of the admin loans page is all-or-nothing: whenever it has
\* ended with the error message set, the held loan list is empty and so are
\* the statistics computed from it.
C26_LoadIsAllOrNothing ==
    (page = "AdminLoans" /\ fetchPhase = "done" /\ error # "") =>
        /\ loans = <<>>
        /\ AdminLoans_totalLoans = 0
        /\ AdminLoans_totalAmount = 0

\* C27: on the manage-users page, whenever no filter effect is pending,
\* filteredUsers is the subsequence of users, in their order, whose name,
\* email or role contains the search term, case ignored.
C27_FilteredUsersFollowUsers ==
    (page = "ManageUsers" /\ ~effectPending) =>
        filteredUsers =
           SelectSeq(users,
                     LAMBDA u : \/ FoundIn(u.name, searchTerm)
                                \/ FoundIn(Spell(u.email), searchTerm)
                                \/ FoundIn(Spell(u.role), searchTerm))

\* A term typed that some but not all users match, then a role updated, and
\* the effect run.
C27_Witness ==
    /\ page = "ManageUsers" /\ ~effectPending
    /\ searchTerm # <<>> /\ toast.title = "Role Updated"
    /\ filteredUsers # <<>> /\ Len(filteredUsers) < Len(users)

InvalidSubmit ==
    \/ AdminLoans_handleAddLoan_invalid
    \/ AdminBorrowers_handleAddBorrower_invalid
    \/ ManageUsers_handleAddUser_invalid

\* C29: submitting an add form with a required field empty sends no request
\* (none can be sent while the form is incomplete), raises a destructive
\* notification and leaves the held collections, the form contents and the
\* dialog-open flag unchanged.
C29_InvalidSubmitChangesNothing ==
    /\ [](newForm # "complete" =>
             /\ \A amount \in Amounts : ~ENABLED AdminLoans_handleAddLoan(amount)
             /\ ~ENABLED AdminBorrowers_handleAddBorrower
             /\ \A role \in UserRole : ~ENABLED ManageUsers_handleAddUser(role))
    /\ [][InvalidSubmit =>
            /\ issued' = issued /\ inflight' = inflight
            /\ toast'.variant = "destructive"
            /\ loans' = loans /\ borrowers' = borrowers /\ users' = users
            /\ filteredUsers' = filteredUsers
            /\ newForm' = newForm /\ isAddOpen' = isAddOpen]_vars

\* The admin loans page after a partly filled form was submitted: the dialog
\* still open, the form as typed, the error notification raised, no request.
C29_Witness ==
    /\ page = "AdminLoans" /\ isAddOpen /\ newForm = "partial"
    /\ toast = Toast("destructive", "Error")
    /\ issued = 0 /\ Len(loans) = MaxRecords

\* C30: the status tabs partition the 'All' tab: on every page with status
\* tabs each record shown under 'All' is shown under exactly one status tab.
C30_TabsPartitionAll ==
    (page \in TablePages /\ TableRendered) =>
        \A r \in Records(Shown) :
           Cardinality({tab \in StatusTabs : r \in Records(TabRows(tab))}) = 1

=============================================================================
